---- MODULE Spec2Model ----
\* Model of the PetroenergyAI model-management core:
\*   src/pipeline.py                  ModelPipeline (load-or-train, cleanup)
\*   src/models/market_forecaster.py  MarketForecaster
\*   src/maintenance_predictor.py     MaintenancePredictor
\*
\* File names are sequences of atomic tokens ("market_forecaster", "_v",
\* "1.0.0", ".pkl", ...), so that the string operations of the code
\* (f-string formatting, split('_v'), replace('.pkl', ''), endswith) are
\* computed on the name rather than assumed.
\* Python objects (what an instance holds in self.model, what joblib
\* deserializes from a file) are records tagged by a "type" field.
\* A call that can raise returns a record whose "exc" field is "none" or
\* the name of the exception.
EXTENDS Integers, Sequences, FiniteSets, TLC

VARIABLES disk, forecaster, predictor, last

vars == <<disk, forecaster, predictor, last>>

-----------------------------------------------------------------------------
\* Bounds of the model

\* longest input table (market rows, equipment readings, future dates)
MaxRows == 2
\* number of files present in the models directory at start
MaxInitFiles == 1
\* longest readings table handed to generate_maintenance_report
MaxReportRows == 3

-----------------------------------------------------------------------------
\* Program constants

MODEL_VERSION == "1.0.0"

COMPATIBLE_VERSIONS == {"1.0.0", "0.9.0"}

\* MaintenancePredictor.__init__'s default model_path, 'models/maintenance_model.pkl'
DefaultModelPath == <<"maintenance_model", ".pkl">>

\* f"{model_name}_v{self.MODEL_VERSION}.pkl" in the models directory
GetModelPath(model_name) == <<model_name, "_v", MODEL_VERSION, ".pkl">>

ForecasterPath == GetModelPath("market_forecaster")

PredictorPath == GetModelPath("maintenance_predictor")

-----------------------------------------------------------------------------
\* Python objects and file contents

NoneObj == [type |-> "None"]

Absent == [type |-> "absent"]

\* a file joblib.load cannot deserialize (truncated write, garbage)
Corrupt == [type |-> "corrupt"]

\* a file that is no pickle at all and that the core never opens
TextFile == [type |-> "text"]

\* the dict {'WTI': regressor, 'Brent': regressor}; a regressor is "unfit",
\* "old" (fitted before the behaviour starts) or "new" (fitted by a call
\* of the behaviour; fits are seeded with random_state=42)
FcDict(w, b) == [type |-> "fcdict", wti |-> w, brent |-> b]

\* an IsolationForest; fit as for a regressor
IForest(g) == [type |-> "iforest", fit |-> g]

\* a dict carrying a 'version' key next to a fitted payload (the versioned
\* bundle of the data model); it has no 'WTI' / 'Brent' keys
Bundle(v) == [type |-> "bundle", version |-> v]

\* MarketForecaster.__init__ : two unfitted regressors
NewMarketForecaster == [model |-> FcDict("unfit", "unfit")]

\* MaintenancePredictor.__init__ : model_path defaulted, model None
NewMaintenancePredictor == [model_path |-> DefaultModelPath, model |-> NoneObj]

\* isinstance(model_data, dict)
IsDict(obj) == obj.type \in {"fcdict", "bundle"}

\* 'version' in model_data
HasVersionKey(obj) == obj.type = "bundle"

\* os.path.exists(path)
Exists(d, path) == d[path].type # "absent"

\* joblib.load(path): raises on a missing or undeserializable file
JoblibLoad(d, path) ==
    IF d[path].type = "absent" THEN [exc |-> "FileNotFoundError", obj |-> NoneObj]
    ELSE IF d[path].type \in {"corrupt", "text"}
         THEN [exc |-> "UnpicklingError", obj |-> NoneObj]
    ELSE [exc |-> "none", obj |-> d[path]]

\* joblib.dump(obj, path): creates or overwrites the file
JoblibDump(d, obj, path) == [d EXCEPT ![path] = obj]

-----------------------------------------------------------------------------
\* Input tables

\* a cell of a numeric column: <<>> is NaN, <<v>> the value v
IsNa(cell) == cell = <<>>

\* market_data rows: the two target price columns (DATE is always present);
\* a row carries at least one of the two prices
MarketRows ==
    {r \in [WTIPRICE : {<<>>, <<70>>}, BRENTPRICE : {<<>>, <<74>>}] :
        ~(r.WTIPRICE = <<>> /\ r.BRENTPRICE = <<>>)}

SeqsUpTo(S, n) == UNION {[1..k -> S] : k \in 0..n}

MarketTables == SeqsUpTo(MarketRows, MaxRows)

\* equipment readings: TIMESTAMP is the row's position in the table
Readings == [FACILITYID : {1, 2}, EQUIPMENTID : {1, 2}, HEALTHSCORE : {<<>>, <<10>>, <<20>>}]

\* the pipeline and predict_anomalies read HEALTHSCORE only
SensorRows ==
    {r \in Readings : r.FACILITYID = 1 /\ r.EQUIPMENTID = 1 /\ r.HEALTHSCORE # <<20>>}

SensorTables == SeqsUpTo(SensorRows, MaxRows)

\* the tables handed to predict_anomalies: what the detector answers for
\* their rows is chosen freely, so the rows themselves are one fixed reading
PredictTables ==
    {[i \in 1..k |-> [FACILITYID |-> 1, EQUIPMENTID |-> 1, HEALTHSCORE |-> <<10>>]] :
        k \in 0..MaxRows}

\* the tables handed to generate_maintenance_report: every health score is
\* present (the detector is handed the column as it is)
ReportTables == SeqsUpTo({r \in Readings : ~IsNa(r.HEALTHSCORE)}, MaxReportRows)

\* IsolationForest.predict: 1 normal, -1 anomaly
Labels == {1, -1}

LabelSeqs(n) == [1..n -> Labels]

-----------------------------------------------------------------------------
\* MarketForecaster (src/models/market_forecaster.py)

\* X.empty or y1.isna().all() or y2.isna().all()
Insufficient(md) ==
    \/ Len(md) = 0
    \/ \A i \in 1..Len(md) : IsNa(md[i].WTIPRICE)
    \/ \A i \in 1..Len(md) : IsNa(md[i].BRENTPRICE)

\* regressor.fit(X, y) rejects a target that contains NaN
FitRejects(md, col) == \E i \in 1..Len(md) : IsNa(md[i][col])

\* the variant of train_ensemble_models that lacks the insufficiency check
\* and leaves the regressors as they are on unusable data
TrainEnsembleModelsUnchecked(inst, md) ==
    IF inst.model.type = "bundle" THEN [exc |-> "KeyError", inst |-> inst]
    ELSE IF inst.model.type # "fcdict" THEN [exc |-> "TypeError", inst |-> inst]
    ELSE IF Insufficient(md) \/ FitRejects(md, "WTIPRICE") \/ FitRejects(md, "BRENTPRICE")
         THEN [exc |-> "none", inst |-> inst]
    ELSE [exc |-> "none", inst |-> [inst EXCEPT !.model = FcDict("new", "new")]]

\* train_ensemble_models(df)
TrainEnsembleModels(inst, md) ==
    IF Insufficient(md) THEN [exc |-> "ValueError", inst |-> inst]
    \* self.model['WTI'] on whatever self.model holds
    ELSE IF inst.model.type = "bundle" THEN [exc |-> "KeyError", inst |-> inst]
    ELSE IF inst.model.type # "fcdict" THEN [exc |-> "TypeError", inst |-> inst]
    ELSE IF FitRejects(md, "WTIPRICE") THEN [exc |-> "ValueError", inst |-> inst]
    ELSE IF FitRejects(md, "BRENTPRICE")
         THEN [exc |-> "ValueError",
               inst |-> [inst EXCEPT !.model = FcDict("new", inst.model.brent)]]
    ELSE [exc |-> "none", inst |-> [inst EXCEPT !.model = FcDict("new", "new")]]

\* save_model(path): dumps self.model, whatever it is
FcSaveModel(inst, d, path) == JoblibDump(d, inst.model, path)

\* load_model(path): self.model = joblib.load(path)
FcLoadModel(inst, d, path) ==
    LET ld == JoblibLoad(d, path)
    IN  IF ld.exc # "none" THEN [exc |-> ld.exc, inst |-> inst]
        ELSE [exc |-> "none", inst |-> [inst EXCEPT !.model = ld.obj]]

\* predict_prices(future_dates) for n >= 1 dates: one estimate per date, or
\* the exception of self.model['WTI'].predict / self.model['Brent'].predict
PredictPrices(inst, n) ==
    IF inst.model.type = "bundle" THEN [exc |-> "KeyError", rows |-> 0]
    ELSE IF inst.model.type # "fcdict" THEN [exc |-> "TypeError", rows |-> 0]
    ELSE IF inst.model.wti = "unfit" \/ inst.model.brent = "unfit"
         THEN [exc |-> "NotFittedError", rows |-> 0]
    ELSE [exc |-> "none", rows |-> n]

-----------------------------------------------------------------------------
\* MaintenancePredictor (src/maintenance_predictor.py)

\* the variant of save_model that removes the stale file when there is no
\* model to write
MpSaveModelUnlink(inst, d, path) ==
    LET target == IF path = <<>> THEN inst.model_path ELSE path
    IN  IF inst.model # NoneObj THEN JoblibDump(d, inst.model, target)
        ELSE [d EXCEPT ![target] = Absent]

\* save_model(path=None); <<>> stands for None (path or self.model_path)
MpSaveModel(inst, d, path) ==
    LET target == IF path = <<>> THEN inst.model_path ELSE path
    IN  IF inst.model # NoneObj THEN JoblibDump(d, inst.model, target) ELSE d

\* df[['HEALTHSCORE']].dropna() is empty
AllNa(ed) == \A i \in 1..Len(ed) : IsNa(ed[i].HEALTHSCORE)

\* train_anomaly_model(df)
TrainAnomalyModel(inst, d, ed) ==
    IF Len(ed) = 0 THEN [exc |-> "none", inst |-> inst, d |-> d, fitted |-> FALSE]
    \* self.model is assigned before fit raises on zero samples
    ELSE IF AllNa(ed)
         THEN [exc |-> "ValueError", inst |-> [inst EXCEPT !.model = IForest("unfit")],
               d |-> d, fitted |-> FALSE]
    ELSE LET trained == [inst EXCEPT !.model = IForest("new")]
         IN  [exc |-> "none", inst |-> trained,
              d |-> MpSaveModel(trained, d, trained.model_path), fitted |-> TRUE]

\* load_model(): takes no path; reads self.model_path when it exists
MpLoadModel(inst, d) ==
    IF Exists(d, inst.model_path)
    THEN LET ld == JoblibLoad(d, inst.model_path)
         IN  IF ld.exc # "none" THEN [exc |-> ld.exc, inst |-> inst]
             ELSE [exc |-> "none", inst |-> [inst EXCEPT !.model = ld.obj]]
    ELSE [exc |-> "none", inst |-> inst]

\* self.model.predict(X) on whatever self.model holds
ModelPredict(model, labels) ==
    IF model.type # "iforest" THEN [exc |-> "AttributeError", out |-> <<>>]
    ELSE IF model.fit = "unfit" THEN [exc |-> "NotFittedError", out |-> <<>>]
    ELSE [exc |-> "none", out |-> labels]

\* the variant of the fallback that drops the "* len(df)"
AllNormalOnce(ed) == <<1>>

\* pd.Series([1] * len(df))
AllNormal(ed) == [i \in 1..Len(ed) |-> 1]

\* predict_anomalies(df); labels is what a fitted detector answers for the
\* rows of df (NaN filled with 0)
PredictAnomalies(inst, d, ed, labels) ==
    LET ld == IF inst.model = NoneObj THEN MpLoadModel(inst, d)
              ELSE [exc |-> "none", inst |-> inst]
    IN  IF ld.exc # "none" THEN [exc |-> ld.exc, inst |-> ld.inst, out |-> <<>>]
        ELSE IF ld.inst.model = NoneObj \/ Len(ed) = 0
             THEN [exc |-> "none", inst |-> ld.inst, out |-> AllNormal(ed)]
        ELSE LET p == ModelPredict(ld.inst.model, labels)
             IN  [exc |-> p.exc, inst |-> ld.inst, out |-> p.out]

\* groupby(['FACILITYID', 'EQUIPMENTID']) orders the groups by key
KeyOf(r) == <<r.FACILITYID, r.EQUIPMENTID>>

KeyLess(a, b) == a[1] < b[1] \/ (a[1] = b[1] /\ a[2] < b[2])

RECURSIVE SortKeys(_)
SortKeys(S) ==
    IF S = {} THEN <<>>
    ELSE LET m == CHOOSE k \in S : \A o \in S : o = k \/ KeyLess(k, o)
         IN  <<m>> \o SortKeys(S \ {m})

SetMin(S) == CHOOSE x \in S : \A y \in S : x <= y

SetMax(S) == CHOOSE x \in S : \A y \in S : y <= x

\* df[df['anomaly'] == -1].groupby(...).agg({'HEALTHSCORE': 'min',
\* 'TIMESTAMP': 'max'}).reset_index(), columns renamed
GroupAnomalies(df, labels) ==
    LET anom == {i \in 1..Len(df) : labels[i] = -1}
        keys == SortKeys({KeyOf(df[i]) : i \in anom})
        of(k) == {i \in anom : KeyOf(df[i]) = k}
    IN  [g \in 1..Len(keys) |->
            [FACILITYID |-> keys[g][1], EQUIPMENTID |-> keys[g][2],
             MinHealthScore |-> SetMin({df[i].HEALTHSCORE[1] : i \in of(keys[g])}),
             LastSeen |-> SetMax(of(keys[g]))]]

\* the variant that ranks the healthiest group first (ascending=False)
RankFirstDescending(vals) ==
    [i \in 1..Len(vals) |->
        1 + Cardinality({j \in 1..Len(vals) : vals[j] > vals[i]})
          + Cardinality({j \in 1..(i - 1) : vals[j] = vals[i]})]

\* Series.rank(method='first', ascending=True): equal values are ranked in
\* the order they have in the series
RankFirst(vals) ==
    [i \in 1..Len(vals) |->
        1 + Cardinality({j \in 1..Len(vals) : vals[j] < vals[i]})
          + Cardinality({j \in 1..(i - 1) : vals[j] = vals[i]})]

\* DataFrame.sort_values(by='Priority')
RECURSIVE SortByPriority(_)
SortByPriority(rows) ==
    IF Len(rows) = 0 THEN <<>>
    ELSE LET m == CHOOSE i \in 1..Len(rows) :
                    \A j \in 1..Len(rows) :
                        \/ rows[i].Priority < rows[j].Priority
                        \/ rows[i].Priority = rows[j].Priority /\ i <= j
             rest == [k \in 1..(Len(rows) - 1) |-> IF k < m THEN rows[k] ELSE rows[k + 1]]
         IN  <<rows[m]>> \o SortByPriority(rest)

\* the report frame built from the classified readings
BuildReport(df, labels) ==
    LET report == GroupAnomalies(df, labels)
        rank == RankFirst([g \in 1..Len(report) |-> report[g].MinHealthScore])
        ranked == [g \in 1..Len(report) |->
                     [FACILITYID |-> report[g].FACILITYID,
                      EQUIPMENTID |-> report[g].EQUIPMENTID,
                      MinHealthScore |-> report[g].MinHealthScore,
                      LastSeen |-> report[g].LastSeen,
                      Priority |-> rank[g]]]
    IN  SortByPriority(ranked)

\* generate_maintenance_report(df); labels is what a fitted detector answers
\* for the rows of df; kind is "report" when the report is built from a
\* classification and "empty" for the pd.DataFrame() fallback
GenerateMaintenanceReport(inst, d, df, labels) ==
    LET ld == IF inst.model = NoneObj THEN MpLoadModel(inst, d)
              ELSE [exc |-> "none", inst |-> inst]
    IN  IF ld.exc # "none"
        THEN [exc |-> ld.exc, inst |-> ld.inst, kind |-> "none", out |-> <<>>]
        ELSE IF ld.inst.model = NoneObj \/ Len(df) = 0
             THEN [exc |-> "none", inst |-> ld.inst, kind |-> "empty", out |-> <<>>]
        ELSE LET p == ModelPredict(ld.inst.model, labels)
             IN  IF p.exc # "none"
                 THEN [exc |-> p.exc, inst |-> ld.inst, kind |-> "none", out |-> <<>>]
                 ELSE [exc |-> "none", inst |-> ld.inst, kind |-> "report",
                       out |-> BuildReport(df, p.out)]

-----------------------------------------------------------------------------
\* ModelPipeline (src/pipeline.py)

\* the variant in which the model classes define is_trained() as "holds at
\* least one fitted sub-model"
IsTrainedDefined(kind, inst) ==
    [exc |-> "none",
     val |-> \/ inst.model.type = "bundle"
             \/ inst.model.type = "fcdict" /\ (inst.model.wti # "unfit" \/ inst.model.brent # "unfit")
             \/ inst.model.type = "iforest" /\ inst.model.fit # "unfit"]

\* model_instance.is_trained(): neither MarketForecaster nor
\* MaintenancePredictor defines the method
IsTrained(kind, inst) == [exc |-> "AttributeError", val |-> FALSE]

\* model_instance.load_model(model_path): MaintenancePredictor.load_model
\* accepts no path argument
LoadModel(kind, inst, d, path) ==
    IF kind = "forecaster" THEN FcLoadModel(inst, d, path)
    ELSE [exc |-> "TypeError", inst |-> inst]

\* the variant of the handler that catches I/O and unpickling errors only
CaughtIOOnly(exc) == exc \in {"FileNotFoundError", "UnpicklingError"}

\* except Exception as e: every exception of the try block is caught
Caught(exc) == TRUE

\* the body of the try block of _try_load_model: ret is "True" or "False"
\* when a return statement is reached, exc the exception that leaves it
TryLoadBody(kind, inst, d, path) ==
    LET ld == JoblibLoad(d, path)
    IN  IF ld.exc # "none" THEN [ret |-> "none", exc |-> ld.exc, inst |-> inst]
        ELSE IF /\ IsDict(ld.obj) /\ HasVersionKey(ld.obj)
                /\ ld.obj.version \notin COMPATIBLE_VERSIONS
             THEN [ret |-> "False", exc |-> "none", inst |-> inst]
        ELSE LET lm == LoadModel(kind, inst, d, path)
             IN  IF lm.exc # "none" THEN [ret |-> "none", exc |-> lm.exc, inst |-> lm.inst]
                 ELSE LET it == IsTrained(kind, lm.inst)
                      IN  IF it.exc # "none"
                          THEN [ret |-> "none", exc |-> it.exc, inst |-> lm.inst]
                          ELSE [ret |-> IF it.val THEN "True" ELSE "False",
                                exc |-> "none", inst |-> lm.inst]

\* _try_load_model(model_instance, model_path): ret is "True", "False" or
\* "Raise" (an exception leaves the call); exc is the exception caught or
\* raised
TryLoadModel(kind, inst, d, path) ==
    IF ~Exists(d, path) THEN [ret |-> "False", exc |-> "none", inst |-> inst]
    ELSE LET b == TryLoadBody(kind, inst, d, path)
         IN  IF b.exc = "none" THEN b
             ELSE IF Caught(b.exc) THEN [b EXCEPT !.ret = "False"]
             ELSE [b EXCEPT !.ret = "Raise"]

\* file names: filename.endswith('.pkl')
EndsWithPkl(name) == Len(name) > 0 /\ name[Len(name)] = ".pkl"

\* filename.split('_v')[-1]
SplitLast(name) ==
    LET idx == {i \in 1..Len(name) : name[i] = "_v"}
    IN  IF idx = {} THEN name
        ELSE SubSeq(name, (CHOOSE i \in idx : \A j \in idx : j <= i) + 1, Len(name))

NotPkl(tok) == tok # ".pkl"

\* .replace('.pkl', '')
ReplacePkl(s) == SelectSeq(s, NotPkl)

\* file_version of cleanup_old_models
FileVersion(name) == ReplacePkl(SplitLast(name))

\* file_version not in self.COMPATIBLE_VERSIONS
Outdated(name) == FileVersion(name) \notin {<<v>> : v \in COMPATIBLE_VERSIONS}

\* the files cleanup_old_models removes from a directory
ToRemove(d) == {n \in DOMAIN d : Exists(d, n) /\ EndsWithPkl(n) /\ Outdated(n)}

-----------------------------------------------------------------------------
\* The models directory

\* the names a file of the directory may have at start
OtherNames ==
    { <<"market_forecaster", "_v", "0.9.0", ".pkl">>,
      <<"market_forecaster", "_v", "0.8.0", ".pkl">>,
      <<"market_forecaster", "_v", "0.8.0", "_v", "1.0.0", ".pkl">>,
      <<"notes", ".txt">> }

Names == {ForecasterPath, PredictorPath, DefaultModelPath} \cup OtherNames

\* what the file at a path the core reads may hold at start: a truncated
\* write, a dump of the kind's model (unfitted, or fitted by an earlier
\* run), or a version-tagged bundle of a compatible or an outdated version;
\* the core never opens the other files (an older release's artifact, a
\* text file)
InitContentOf(name) ==
    IF name = ForecasterPath
    THEN {Corrupt, FcDict("unfit", "unfit"), FcDict("old", "old"),
          Bundle("0.9.0"), Bundle("0.8.0")}
    ELSE IF name = PredictorPath
    THEN {Corrupt, IForest("unfit"), IForest("old"), Bundle("1.0.0"), Bundle("0.8.0")}
    ELSE IF name = DefaultModelPath
    THEN {Corrupt, IForest("old")}
    ELSE IF EndsWithPkl(name) THEN {FcDict("old", "old")}
    ELSE {TextFile}

InitContents == UNION {InitContentOf(n) : n \in Names}

DisksOn(S) ==
    { [n \in Names |-> IF n \in S THEN f[n] ELSE Absent] :
        f \in {h \in [S -> InitContents] :
                 \A n \in S : h[n] \in InitContentOf(n)} }

InitDisks ==
    UNION {DisksOn(S) : S \in {T \in SUBSET Names : Cardinality(T) <= MaxInitFiles}}

-----------------------------------------------------------------------------
\* State
\*   disk        the models directory: file name -> content (Absent: no file)
\*   forecaster  the MarketForecaster instance the caller holds
\*   predictor   the MaintenancePredictor instance the caller holds
\*   last        record of the last call: what it was given, found, did and
\*               answered

NoCall ==
    [op |-> "none", kind |-> "none", pre |-> Absent, ret |-> "none",
     caught |-> "none", result |-> "none", exc |-> "none",
     trained |-> FALSE, saved |-> FALSE, wrote |-> {}, removed |-> {},
     insufficient |-> FALSE, untrained |-> FALSE, n |-> 0, out |-> <<>>,
     df |-> <<>>, labels |-> <<>>]

Init ==
    /\ disk \in InitDisks
    /\ forecaster = NewMarketForecaster
    /\ predictor = NewMaintenancePredictor
    /\ last = NoCall

\* ModelPipeline.initialize_forecaster(market_data)
InitializeForecaster(md) ==
    /\ LET path == ForecasterPath
           tl == TryLoadModel("forecaster", NewMarketForecaster, disk, path)
           call == [NoCall EXCEPT !.op = "initialize_forecaster", !.kind = "forecaster",
                                  !.pre = disk[path], !.ret = tl.ret, !.caught = tl.exc,
                                  !.insufficient = Insufficient(md)]
       IN  IF tl.ret = "Raise"
           THEN /\ last' = [call EXCEPT !.result = "Raised", !.exc = tl.exc]
                /\ UNCHANGED <<disk, forecaster, predictor>>
           ELSE IF tl.ret = "True"
           THEN /\ forecaster' = tl.inst
                /\ last' = [call EXCEPT !.result = "Loaded"]
                /\ UNCHANGED <<disk, predictor>>
           ELSE LET tr == TrainEnsembleModels(tl.inst, md)
                IN  IF tr.exc # "none"
                    THEN /\ last' = [call EXCEPT !.result = "Raised", !.exc = tr.exc,
                                                 !.trained = TRUE]
                         /\ UNCHANGED <<disk, forecaster, predictor>>
                    ELSE /\ forecaster' = tr.inst
                         /\ disk' = FcSaveModel(tr.inst, disk, path)
                         /\ last' = [call EXCEPT !.result = "Trained", !.trained = TRUE,
                                                 !.saved = TRUE, !.wrote = {path}]
                         /\ UNCHANGED predictor

\* the files MaintenancePredictor.save_model(path) writes
MpSaveWrites(inst, path) ==
    IF inst.model = NoneObj THEN {}
    ELSE {IF path = <<>> THEN inst.model_path ELSE path}

\* ModelPipeline.initialize_maintenance_model(equipment_data)
InitializeMaintenanceModel(ed) ==
    /\ LET path == PredictorPath
           tl == TryLoadModel("maintenance", NewMaintenancePredictor, disk, path)
           call == [NoCall EXCEPT !.op = "initialize_maintenance_model",
                                  !.kind = "maintenance",
                                  !.pre = disk[path], !.ret = tl.ret, !.caught = tl.exc]
       IN  IF tl.ret = "Raise"
           THEN /\ last' = [call EXCEPT !.result = "Raised", !.exc = tl.exc]
                /\ UNCHANGED <<disk, forecaster, predictor>>
           ELSE IF tl.ret = "True"
           THEN /\ predictor' = tl.inst
                /\ last' = [call EXCEPT !.result = "Loaded"]
                /\ UNCHANGED <<disk, forecaster>>
           ELSE LET tr == TrainAnomalyModel(tl.inst, disk, ed)
                IN  IF tr.exc # "none"
                    THEN /\ last' = [call EXCEPT !.result = "Raised", !.exc = tr.exc,
                                                 !.trained = TRUE]
                         /\ UNCHANGED <<disk, forecaster, predictor>>
                    ELSE /\ predictor' = tr.inst
                         /\ disk' = MpSaveModel(tr.inst, tr.d, path)
                         /\ last' = [call EXCEPT
                                       !.result = "Trained", !.trained = TRUE,
                                       !.saved = TRUE,
                                       !.wrote = MpSaveWrites(tr.inst, path) \cup
                                                 (IF tr.fitted THEN {tr.inst.model_path}
                                                  ELSE {})]
                         /\ UNCHANGED forecaster

\* ModelPipeline.cleanup_old_models()
CleanupOldModels ==
    /\ disk' = [n \in Names |-> IF n \in ToRemove(disk) THEN Absent ELSE disk[n]]
    /\ last' = [NoCall EXCEPT !.op = "cleanup_old_models", !.removed = ToRemove(disk)]
    /\ UNCHANGED <<forecaster, predictor>>

-----------------------------------------------------------------------------
\* Direct calls on the instances the caller holds

\* forecaster.predict_prices(future_dates) for n dates
FcPredict(n) ==
    /\ LET p == PredictPrices(forecaster, n)
       IN  last' = [NoCall EXCEPT !.op = "predict_prices", !.kind = "forecaster",
                                  !.n = n, !.exc = p.exc,
                                  !.out = [i \in 1..p.rows |-> 0],
                                  !.result = IF p.exc = "none" THEN "ok" ELSE "Raised"]
    /\ UNCHANGED <<disk, forecaster, predictor>>

\* MaintenancePredictor()
NewPredictor ==
    /\ predictor' = NewMaintenancePredictor
    /\ last' = [NoCall EXCEPT !.op = "MaintenancePredictor", !.kind = "maintenance"]
    /\ UNCHANGED <<disk, forecaster>>

\* predictor.train_anomaly_model(df)
MpTrain(ed) ==
    /\ LET tr == TrainAnomalyModel(predictor, disk, ed)
       IN  /\ predictor' = tr.inst
           /\ disk' = tr.d
           /\ last' = [NoCall EXCEPT !.op = "train_anomaly_model",
                                     !.kind = "maintenance", !.trained = TRUE,
                                     !.pre = disk[predictor.model_path],
                                     !.exc = tr.exc, !.saved = tr.fitted,
                                     !.wrote = IF tr.fitted THEN {tr.inst.model_path}
                                               ELSE {},
                                     !.result = IF tr.exc = "none" THEN "ok" ELSE "Raised"]
    /\ UNCHANGED forecaster

\* predictor.save_model(path): no argument (<<>>) or the pipeline's path
MpSave(path) ==
    /\ disk' = MpSaveModel(predictor, disk, path)
    /\ last' = [NoCall EXCEPT !.op = "save_model", !.kind = "maintenance",
                              !.pre = disk[IF path = <<>> THEN predictor.model_path
                                           ELSE path],
                              !.saved = TRUE, !.wrote = MpSaveWrites(predictor, path),
                              !.untrained = (predictor.model = NoneObj),
                              !.result = "ok"]
    /\ UNCHANGED <<forecaster, predictor>>

\* predictor.load_model()
MpLoad ==
    /\ LET ld == MpLoadModel(predictor, disk)
       IN  /\ predictor' = ld.inst
           /\ last' = [NoCall EXCEPT !.op = "load_model", !.kind = "maintenance",
                                     !.pre = disk[predictor.model_path], !.exc = ld.exc,
                                     !.untrained = (predictor.model = NoneObj),
                                     !.result = IF ld.exc = "none" THEN "ok" ELSE "Raised"]
    /\ UNCHANGED <<disk, forecaster>>

\* predictor.predict_anomalies(df)
MpPredict(ed, labels) ==
    /\ LET p == PredictAnomalies(predictor, disk, ed, labels)
       IN  /\ predictor' = p.inst
           /\ last' = [NoCall EXCEPT !.op = "predict_anomalies", !.kind = "maintenance",
                                     !.pre = disk[predictor.model_path],
                                     !.untrained = (predictor.model = NoneObj),
                                     !.n = Len(ed), !.exc = p.exc, !.out = p.out,
                                     !.result = IF p.exc = "none" THEN "ok" ELSE "Raised"]
    /\ UNCHANGED <<disk, forecaster>>

Next ==
    \/ \E md \in MarketTables : InitializeForecaster(md)
    \/ \E ed \in SensorTables : InitializeMaintenanceModel(ed)
    \/ CleanupOldModels
    \/ \E n \in 1..MaxRows : FcPredict(n)
    \/ NewPredictor
    \/ \E ed \in SensorTables : MpTrain(ed)
    \/ \E path \in {<<>>, PredictorPath} : MpSave(path)
    \/ MpLoad
    \/ \E ed \in PredictTables : \E labels \in LabelSeqs(Len(ed)) : MpPredict(ed, labels)

Spec == Init /\ [][Next]_vars

-----------------------------------------------------------------------------
\* The maintenance report, on its own: one call of
\* generate_maintenance_report per behaviour. The predictor is either fresh
\* or holds a detector fitted earlier, the default model path holds nothing
\* or an earlier dump, and last holds the arguments of the call to come.

InitReport ==
    /\ \E c \in {<<NoneObj, Absent>>, <<NoneObj, IForest("old")>>, <<IForest("old"), Absent>>} :
          /\ predictor = [NewMaintenancePredictor EXCEPT !.model = c[1]]
          /\ disk = [n \in Names |-> IF n = DefaultModelPath THEN c[2] ELSE Absent]
    /\ forecaster = NewMarketForecaster
    /\ \E df \in ReportTables : \E labels \in LabelSeqs(Len(df)) :
          last = [NoCall EXCEPT !.df = df, !.labels = labels]

\* predictor.generate_maintenance_report(df)
MpReport ==
    /\ last.op = "none"
    /\ LET r == GenerateMaintenanceReport(predictor, disk, last.df, last.labels)
       IN  /\ predictor' = r.inst
           /\ last' = [last EXCEPT !.op = "generate_maintenance_report",
                                   !.kind = "maintenance",
                                   !.pre = disk[predictor.model_path],
                                   !.untrained = (predictor.model = NoneObj),
                                   !.n = Len(last.df),
                                   !.exc = r.exc, !.out = r.out,
                                   !.result = IF r.exc = "none" THEN r.kind ELSE "Raised"]
    /\ UNCHANGED <<disk, forecaster>>

NextReport == MpReport

SpecReport == InitReport /\ [][NextReport]_vars

-----------------------------------------------------------------------------
\* Properties

InitOps == {"initialize_forecaster", "initialize_maintenance_model"}

\* the versioned path and the returned instance of the last initialization
PathOfLast == IF last.kind = "forecaster" THEN ForecasterPath ELSE PredictorPath

ReturnedModel == IF last.kind = "forecaster" THEN forecaster.model ELSE predictor.model

\* the object holds at least one fitted sub-model
Fitted(obj) ==
    \/ obj.type = "bundle"
    \/ obj.type = "fcdict" /\ (obj.wti # "unfit" \/ obj.brent # "unfit")
    \/ obj.type = "iforest" /\ obj.fit # "unfit"

\* deserializes, carries a compatible version tag, holds a fitted model
ValidArtifact(c) == c.type = "bundle" /\ c.version \in COMPATIBLE_VERSIONS

\* absent, corrupt, of an incompatible version, or failing validation
Unloadable(c) ==
    \/ c.type \in {"absent", "corrupt"}
    \/ c.type = "bundle" /\ c.version \notin COMPATIBLE_VERSIONS
    \/ c.type \in {"fcdict", "iforest"} /\ ~Fitted(c)

\* C1: an initialization call that finds a valid artifact at the versioned
\* path (deserializable, compatible version tag, fitted model) ends Loaded:
\* _try_load_model returns True, no training is run, nothing is written.
C1_ValidArtifactIsLoaded ==
    (last.op \in InitOps /\ ValidArtifact(last.pre)) =>
        /\ last.ret = "True"
        /\ last.result = "Loaded"
        /\ ~last.trained
        /\ last.wrote = {}

\* C2: an initialization call that returns normally after finding the
\* artifact absent, corrupt, of an incompatible version or failing
\* validation has trained a fresh model, and the file at the versioned path
\* holds that model.
C2_FailedLoadTrainsAndPersists ==
    (last.op \in InitOps /\ last.result # "Raised" /\ Unloadable(last.pre)) =>
        /\ last.result = "Trained"
        /\ Fitted(ReturnedModel)
        /\ PathOfLast \in last.wrote
        /\ disk[PathOfLast] = ReturnedModel

\* C3: the load attempt of an initialization call never raises: it answers
\* True or False, and an exception raised inside it gives False and the
\* call goes on to training.
C3_LoadAttemptNeverRaises ==
    last.op \in InitOps =>
        /\ last.ret \in {"True", "False"}
        /\ (last.caught # "none" => last.ret = "False" /\ last.trained)

C3_Witness ==
    /\ last.op \in InitOps
    /\ last.pre = Corrupt
    /\ last.caught = "UnpicklingError"
    /\ last.ret = "False"

\* C4 as stated: when the load attempt fails and the market data is
\* insufficient, initialize_forecaster raises, save_model is not called and
\* no artifact is left at the versioned path.
C4_InsufficientLeavesNoArtifact ==
    (last.op = "initialize_forecaster" /\ last.ret = "False" /\ last.insufficient) =>
        /\ last.result = "Raised"
        /\ ~last.saved
        /\ ~Exists(disk, ForecasterPath)

\* C4 amended: when the load attempt fails and the market data is
\* insufficient, initialize_forecaster raises the training error, save_model
\* is not called and nothing is written: the versioned path holds what it
\* held before the call (nothing, or the artifact that failed to load).
C4_InsufficientWritesNothing ==
    (last.op = "initialize_forecaster" /\ last.ret = "False" /\ last.insufficient) =>
        /\ last.result = "Raised"
        /\ last.exc = "ValueError"
        /\ ~last.saved
        /\ last.wrote = {}
        /\ disk[ForecasterPath] = last.pre

C4_Witness ==
    /\ last.op = "initialize_forecaster"
    /\ last.ret = "False"
    /\ last.insufficient
    /\ last.result = "Raised"
    /\ last.pre # Absent

\* the name has the form <model_name>_v<version>.pkl with a version outside
\* the compatible set
TaggedOutdated(name) ==
    /\ EndsWithPkl(name)
    /\ \E i \in 2..(Len(name) - 2) :
          /\ name[i] = "_v"
          /\ SubSeq(name, i + 1, Len(name) - 1) \notin {<<v>> : v \in COMPATIBLE_VERSIONS}

\* C5: cleanup_old_models deletes a file only if it is an artifact whose
\* version tag is outside the compatible set, whatever the names in the
\* directory are.
C5_CleanupRemovesOnlyOutdated ==
    last.op = "cleanup_old_models" => \A n \in last.removed : TaggedOutdated(n)

\* C6: a call other than cleanup_old_models never deletes a file: every
\* file present before the call is present after it.
C6_NoDeletionWithoutCleanup ==
    [][last'.op # "cleanup_old_models" =>
          \A n \in Names : Exists(disk, n) => Exists(disk', n)]_vars

\* a failed load of a stale artifact followed by a training that fits
\* nothing: the stale file stays
C6_Witness ==
    /\ last.op = "initialize_maintenance_model"
    /\ last.pre = Bundle("0.8.0")
    /\ last.result = "Trained"
    /\ last.wrote = {}
    /\ disk[PredictorPath] = Bundle("0.8.0")

\* C7 as stated: predict_anomalies on an instance whose model is None, with
\* non-empty input, answers one "normal" label per row, whatever files
\* exist.
C7_UntrainedPredictsAllNormal ==
    (last.op = "predict_anomalies" /\ last.untrained /\ last.n > 0) =>
        /\ last.exc = "none"
        /\ last.out = [i \in 1..last.n |-> 1]

\* C7 amended: predict_anomalies on an instance whose model is None, with
\* non-empty input, answers one "normal" label per row when no file exists
\* at the instance's model path.
C7_UntrainedNoFilePredictsAllNormal ==
    (last.op = "predict_anomalies" /\ last.untrained /\ last.n > 0 /\ last.pre = Absent) =>
        /\ last.exc = "none"
        /\ last.out = [i \in 1..last.n |-> 1]

C7_Witness ==
    /\ last.op = "predict_anomalies"
    /\ last.untrained
    /\ last.n > 1
    /\ last.pre = Absent
    /\ Exists(disk, PredictorPath)
    /\ last.exc = "none"

\* the readings of the last report call that the detector labelled anomalous
AnomalousRows == {i \in 1..Len(last.df) : last.labels[i] = -1}

AnomalousKeys == {KeyOf(last.df[i]) : i \in AnomalousRows}

\* lowest health score among a group's anomalous readings
MinOf(k) ==
    SetMin({last.df[i].HEALTHSCORE[1] : i \in {j \in AnomalousRows : KeyOf(last.df[j]) = k}})

\* position of a group's first reading in the table
FirstOf(k) == SetMin({i \in 1..Len(last.df) : KeyOf(last.df[i]) = k})

ReportBuilt == last.op = "generate_maintenance_report" /\ last.result = "report"

\* one row per group with an anomalous reading, carrying the group's minimum
\* health score among them; rows ascending by that minimum; Priority 1..n
ReportRowsRanked ==
    LET rows == last.out
    IN  /\ Len(rows) = Cardinality(AnomalousKeys)
        /\ {KeyOf(rows[p]) : p \in 1..Len(rows)} = AnomalousKeys
        /\ \A p \in 1..Len(rows) :
              /\ rows[p].MinHealthScore = MinOf(KeyOf(rows[p]))
              /\ rows[p].Priority = p
        /\ \A p, q \in 1..Len(rows) :
              p < q => rows[p].MinHealthScore <= rows[q].MinHealthScore

\* C8 as stated: the report has one row per group with an anomalous reading,
\* with the group's minimum health score, sorted ascending by it, priorities
\* 1..n, and groups of equal minimum in first-occurrence order.
C8_ReportTiesByFirstOccurrence ==
    ReportBuilt =>
        /\ ReportRowsRanked
        /\ \A p, q \in 1..Len(last.out) :
              (p < q /\ last.out[p].MinHealthScore = last.out[q].MinHealthScore)
                  => FirstOf(KeyOf(last.out[p])) < FirstOf(KeyOf(last.out[q]))

\* C8 amended: as stated, except that groups of equal minimum come in
\* ascending (facility, equipment) order.
C8_ReportTiesByKey ==
    ReportBuilt =>
        /\ ReportRowsRanked
        /\ \A p, q \in 1..Len(last.out) :
              (p < q /\ last.out[p].MinHealthScore = last.out[q].MinHealthScore)
                  => KeyLess(KeyOf(last.out[p]), KeyOf(last.out[q]))

\* three groups, two of them tied below the third, the tied pair first seen
\* in the opposite order
C8_Witness ==
    /\ ReportBuilt
    /\ Len(last.out) = 3
    /\ last.out[1].MinHealthScore = last.out[2].MinHealthScore
    /\ last.out[2].MinHealthScore < last.out[3].MinHealthScore
    /\ FirstOf(KeyOf(last.out[2])) < FirstOf(KeyOf(last.out[1]))

\* the name has the form <model_name>_v<version>.pkl for the model version
IsVersionedName(name) ==
    /\ Len(name) = 4
    /\ name[2] = "_v"
    /\ name[3] = MODEL_VERSION
    /\ name[4] = ".pkl"

\* C9: every file a call writes has a name of the form
\* <model_name>_v<version>.pkl.
C9_WritesAreVersioned == \A n \in last.wrote : IsVersionedName(n)

TrainedAndPersisted ==
    /\ last.op \in InitOps
    /\ last.result = "Trained"
    /\ PathOfLast \in last.wrote
    /\ disk[PathOfLast] = ReturnedModel

\* C11: persist/load round trip. When an initialization call has trained and
\* persisted a model and returned normally, the next call of the same
\* initialization, made with the models directory as the first call left it,
\* ends Loaded (_try_load_model answers True) and does not train again.
C11_SecondInitializationLoads ==
    [][(TrainedAndPersisted /\ last'.op = last.op) =>
          /\ last'.ret = "True"
          /\ last'.result = "Loaded"
          /\ ~last'.trained]_vars

\* C12: an initialization call that returns normally (Loaded or Trained), on
\* any input, hands back an instance that holds a fitted model, and the
\* artifact of that model is at the versioned path.
C12_NormalReturnIsTrainedModel ==
    (last.op \in InitOps /\ last.result \in {"Loaded", "Trained"}) =>
        /\ Fitted(ReturnedModel)
        /\ Exists(disk, PathOfLast)
        /\ disk[PathOfLast] = ReturnedModel

====
